---- MODULE Spec2Model ----
(***************************************************************************)
(* Model of bunoffe's MockQueryExecutor (testing.go): an ordered list of   *)
(* scripted operations (Ops) and a cursor (idx).  Each call of Exec, Scan  *)
(* or Exists takes the next entry with nextOp, checks its type, and either *)
(* returns the scripted values, copies values by reflection (assign), or   *)
(* panics.  A panic is recoverable (the tests recover it with              *)
(* assert.Panics and keep using the same executor), so a panicking call is *)
(* a step whose outcome is "panic" and after which further calls happen.   *)
(*                                                                         *)
(* Go values of type any are modelled by their reflect.Kind as far as      *)
(* assign looks at it: nil, a pointer to a variable, or a plain value.     *)
(* All variables hold values of one Go type, so reflect's assignability    *)
(* check never fails; the heap maps each variable to its current value.    *)
(***************************************************************************)
EXTENDS Integers, Sequences, FiniteSets, TLC

\* Longest Ops list the executor is constructed with.
MaxOps == 2
\* Number of calls made on one executor.
MaxCalls == 3

\* Ops and idx are the executor's fields; heap holds the program's variables;
\* calls and last record the calls made and the latest one; qlog is the log
\* of the calls made on queries' own Exec, Scan and Exists methods; run2 is
\* a second run of the same executor (same Ops, same methods called) that is
\* given other queries, with its own cursor and variables.
VARIABLES Ops, idx, heap, calls, last, qlog, run2

vars == <<Ops, idx, heap, calls, last, qlog, run2>>

----------------------------------------------------------------------------
(* Values of Go's `any` as reflect sees them.                              *)

Nil == [kind |-> "nil", addr |-> "-", v |-> 0]
Ptr(a) == [kind |-> "ptr", addr |-> a, v |-> 0]
Val(x) == [kind |-> "val", addr |-> "-", v |-> x]

\* The variables of the program under test: m is the variable the entries'
\* Model points to, n the variable given to the query with .Model(&n),
\* s and f the variables whose addresses the caller passes as args, and p a
\* variable an entry's Args points to.
Cells == {"m", "n", "s", "f", "p"}

InitHeap == [c \in Cells |->
               CASE c = "m" -> 33
                 [] c = "n" -> 20
                 [] c = "p" -> 7
                 [] OTHER -> 0]

\* error values: "nil" is Go's nil error.   sql.Result values: "nil" is unset.
NoError == "nil"
NoResult == "nil"

----------------------------------------------------------------------------
(* The three operation types.                                              *)

MockExecOperation(model, args, result, err) ==
  [type |-> "MockExecOperation", Model |-> model, Args |-> args,
   Result |-> result, Error |-> err, Exists |-> FALSE]

MockScanOperation(model, args, err) ==
  [type |-> "MockScanOperation", Model |-> model, Args |-> args,
   Result |-> NoResult, Error |-> err, Exists |-> FALSE]

MockExistsOperation(exists, err) ==
  [type |-> "MockExistsOperation", Model |-> Nil, Args |-> <<>>,
   Result |-> NoResult, Error |-> err, Exists |-> exists]

\* The entries a test may script.
OpUniverse ==
  { MockExecOperation(Nil, <<>>, NoResult, NoError),
    MockExecOperation(Ptr("m"), <<Val(4)>>, "r1", NoError),
    MockExecOperation(Nil, <<Val(4), Val(5)>>, NoResult, NoError),
    MockExecOperation(Ptr("m"), <<Val(4)>>, "r1", "e1"),
    MockExecOperation(Val(6), <<Val(4)>>, "r1", NoError),
    MockScanOperation(Ptr("m"), <<Val(4)>>, NoError),
    MockScanOperation(Val(6), <<Val(4), Ptr("p")>>, NoError),
    MockScanOperation(Ptr("m"), <<Val(4)>>, "e2"),
    MockScanOperation(Nil, <<Val(4), Nil>>, NoError) }
  \cup { MockExistsOperation(b, e) : b \in BOOLEAN, e \in {NoError, "e3"} }

OpsChoices == UNION { [1..k -> OpUniverse] : k \in 0..MaxOps }

\* The query a call is given: built with .Model(&n), or with no model.
Queries == { Ptr("n"), Nil }

\* The variadic args a call is given: none, pointers to the caller's
\* variables (also twice the same one), a value that is not a pointer, and a
\* pointer to the variable of the query's model or of the entries' Model.
ArgsChoices ==
  { <<>>, <<Ptr("s")>>, <<Ptr("s"), Ptr("f")>>, <<Ptr("s"), Ptr("s")>>,
    <<Val(9), Ptr("f")>>, <<Ptr("n")>>, <<Ptr("m")>> }

----------------------------------------------------------------------------
(* nextOp: the entry under the cursor, advancing the cursor; panics when   *)
(* the list is exhausted, leaving the cursor alone.                        *)

\* nextOp without ex.idx++: the cursor never advances.
nextOpStuck(ops, i) ==
  IF Len(ops) <= i
  THEN [panic |-> TRUE, idx |-> i, entry |-> 0]
  ELSE [panic |-> FALSE, idx |-> i, entry |-> (i + 1)]

\* nextOp that starts the list again when it is exhausted.
nextOpWrap(ops, i) ==
  IF Len(ops) = 0
  THEN [panic |-> TRUE, idx |-> i, entry |-> 0]
  ELSE IF Len(ops) <= i
  THEN [panic |-> FALSE, idx |-> 1, entry |-> 1]
  ELSE [panic |-> FALSE, idx |-> i + 1, entry |-> (i + 1)]

\* nextOp that advances the cursor before it looks for the entry.
nextOpOverrun(ops, i) ==
  IF Len(ops) <= i
  THEN [panic |-> TRUE, idx |-> i + 1, entry |-> 0]
  ELSE [panic |-> FALSE, idx |-> i + 1, entry |-> (i + 1)]

nextOp(ops, i) ==
  IF Len(ops) <= i
  THEN [panic |-> TRUE, idx |-> i, entry |-> 0]
  ELSE [panic |-> FALSE, idx |-> i + 1, entry |-> (i + 1)]

\* assign(dest, src) on heap h: the heap afterwards, or a panic.  A
\* reflect.Value made by reflect.ValueOf is never addressable, so Set on a
\* dest that is no pointer panics; Elem of a plain value panics; Set with the
\* zero Value (reflect.ValueOf(nil)) panics.
assign(h, dest, src) ==
  CASE dest.kind = "ptr" /\ src.kind = "ptr" ->
         [panic |-> FALSE, heap |-> [h EXCEPT ![dest.addr] = h[src.addr]]]
    [] dest.kind = "ptr" /\ src.kind # "ptr" ->
         IF src.kind = "val"
         THEN [panic |-> FALSE, heap |-> [h EXCEPT ![dest.addr] = src.v]]
         ELSE [panic |-> TRUE, heap |-> h]
    [] dest.kind # "ptr" /\ src.kind = "ptr" ->
         [panic |-> TRUE, heap |-> h]
    [] dest.kind # "ptr" /\ src.kind # "ptr" ->
         [panic |-> TRUE, heap |-> h]

\* The loop over op.Args assigning the first value at every position.
RECURSIVE assignArgsFirstValue(_, _, _, _)
assignArgsFirstValue(h, args, opArgs, i) ==
  IF i > Len(opArgs) THEN [panic |-> FALSE, heap |-> h]
  ELSE IF i > Len(args) THEN [panic |-> TRUE, heap |-> h]
  ELSE LET a == assign(h, args[i], opArgs[1])
       IN IF a.panic THEN a ELSE assignArgsFirstValue(a.heap, args, opArgs, i + 1)

\* for i, val := range op.Args { assign(args[i], val) }, from position i on:
\* stops at the first panic (args[i] out of range, or assign's), keeping the
\* assignments made before it.
RECURSIVE assignArgs(_, _, _, _)
assignArgs(h, args, opArgs, i) ==
  IF i > Len(opArgs) THEN [panic |-> FALSE, heap |-> h]
  ELSE IF i > Len(args) THEN [panic |-> TRUE, heap |-> h]
  ELSE LET a == assign(h, args[i], opArgs[i])
       IN IF a.panic THEN a ELSE assignArgs(a.heap, args, opArgs, i + 1)

\* What a call leaves behind: the cursor, the heap, and what the caller sees.
Outcome(i, h, entry, outcome, panic, result, err, flag) ==
  [idx |-> i, heap |-> h, entry |-> entry, outcome |-> outcome,
   panic |-> panic, result |-> result, err |-> err, flag |-> flag]

Panics(i, h, entry, why) ==
  Outcome(i, h, entry, "panic", why, NoResult, NoError, FALSE)

\* A type assertion that takes a MockScanOperation for a MockExecOperation
\* and the other way round (the two have the same Model and Args fields).
castOkLoose(method, op) ==
  CASE method = "Exec" -> op.type \in {"MockExecOperation", "MockScanOperation"}
    [] method = "Scan" -> op.type \in {"MockExecOperation", "MockScanOperation"}
    [] method = "Exists" -> op.type = "MockExistsOperation"

\* nop.(MockExecOperation) and its siblings: the type assertion of a method.
castOk(method, op) ==
  CASE method = "Exec" -> op.type = "MockExecOperation"
    [] method = "Scan" -> op.type = "MockScanOperation"
    [] method = "Exists" -> op.type = "MockExistsOperation"

\* Exec's model step copying the way Scan's does: into the query's model.
ExecModelIntoQuery(h, op, q) ==
  IF op.Model.kind = "nil" THEN [panic |-> FALSE, heap |-> h]
  ELSE IF q.kind = "nil" THEN [panic |-> TRUE, heap |-> h]
  ELSE assign(h, q, op.Model)

\* Scan's model step copying the way Exec's does: into the entry's Model.
ScanModelIntoEntry(h, op, q) ==
  IF op.Model.kind = "nil" THEN [panic |-> FALSE, heap |-> h]
  ELSE IF q.kind = "nil" THEN [panic |-> TRUE, heap |-> h]
  ELSE assign(h, op.Model, q)

\* Exec's model step: assign(op.Model, q.GetModel().Value()).  A query with
\* no model has a nil GetModel(), and calling Value on it panics.
ExecModel(h, op, q) ==
  IF op.Model.kind = "nil" THEN [panic |-> FALSE, heap |-> h]
  ELSE IF q.kind = "nil" THEN [panic |-> TRUE, heap |-> h]
  ELSE assign(h, op.Model, q)

\* Scan's model step: assign(q.GetModel().Value(), op.Model).
ScanModel(h, op, q) ==
  IF op.Model.kind = "nil" THEN [panic |-> FALSE, heap |-> h]
  ELSE IF q.kind = "nil" THEN [panic |-> TRUE, heap |-> h]
  ELSE assign(h, q, op.Model)

\* Exec's length check of op.Args against args.
ExecArgsLenOk(op, args) ==
  ~(Len(op.Args) > 0 /\ Len(op.Args) # Len(args))

\* Exec returning the scripted Result together with the scripted Error.
ExecReturnKeepsResult(op) ==
  [result |-> op.Result, err |-> op.Error]

\* Exec that drops the scripted Result.
ExecReturnNoResult(op) ==
  [result |-> NoResult, err |-> op.Error]

\* The values Exec returns when it returns.
ExecReturn(op) ==
  IF op.Error # NoError
  THEN [result |-> NoResult, err |-> op.Error]
  ELSE [result |-> op.Result, err |-> NoError]

\* Exists as the comment on MockExistsOperation.Exists words it: the Exists
\* value when Error is set, false otherwise.
ExistsReturnAsCommented(op) ==
  IF op.Error # NoError
  THEN [flag |-> op.Exists, err |-> op.Error]
  ELSE [flag |-> FALSE, err |-> NoError]

\* Exists returning the scripted Exists value next to a scripted Error.
ExistsReturnKeepsFlag(op) ==
  [flag |-> op.Exists, err |-> op.Error]

\* The values Exists returns.
ExistsReturn(op) ==
  IF op.Error # NoError
  THEN [flag |-> FALSE, err |-> op.Error]
  ELSE [flag |-> op.Exists, err |-> NoError]

\* MockQueryExecutor.Exec(ctx, q, args...)
ExecCall(ops, i, h, q, args) ==
  LET nop == nextOp(ops, i) IN
  IF nop.panic THEN Panics(nop.idx, h, 0, "exhausted")
  ELSE
  LET op == ops[nop.entry] IN
  IF ~castOk("Exec", op) THEN Panics(nop.idx, h, nop.entry, "cast")
  ELSE IF op.Error # NoError
  THEN Outcome(nop.idx, h, nop.entry, "return", "-",
               ExecReturn(op).result, ExecReturn(op).err, FALSE)
  ELSE
  LET md == ExecModel(h, op, q) IN
  IF md.panic THEN Panics(nop.idx, md.heap, nop.entry, "model")
  ELSE IF ~ExecArgsLenOk(op, args)
  THEN Panics(nop.idx, md.heap, nop.entry, "argslen")
  ELSE
  LET ar == assignArgs(md.heap, args, op.Args, 1) IN
  IF ar.panic THEN Panics(nop.idx, ar.heap, nop.entry, "args")
  ELSE Outcome(nop.idx, ar.heap, nop.entry, "return", "-",
               ExecReturn(op).result, ExecReturn(op).err, FALSE)

\* MockQueryExecutor.Scan(ctx, q, args...)
ScanCall(ops, i, h, q, args) ==
  LET nop == nextOp(ops, i) IN
  IF nop.panic THEN Panics(nop.idx, h, 0, "exhausted")
  ELSE
  LET op == ops[nop.entry] IN
  IF ~castOk("Scan", op) THEN Panics(nop.idx, h, nop.entry, "cast")
  ELSE IF op.Error # NoError
  THEN Outcome(nop.idx, h, nop.entry, "return", "-", NoResult, op.Error, FALSE)
  ELSE
  LET md == ScanModel(h, op, q) IN
  IF md.panic THEN Panics(nop.idx, md.heap, nop.entry, "model")
  ELSE
  LET ar == assignArgs(md.heap, args, op.Args, 1) IN
  IF ar.panic THEN Panics(nop.idx, ar.heap, nop.entry, "args")
  ELSE Outcome(nop.idx, ar.heap, nop.entry, "return", "-", NoResult, NoError, FALSE)

\* MockQueryExecutor.Exists(ctx, q)
ExistsCall(ops, i, h, q) ==
  LET nop == nextOp(ops, i) IN
  IF nop.panic THEN Panics(nop.idx, h, 0, "exhausted")
  ELSE
  LET op == ops[nop.entry] IN
  IF ~castOk("Exists", op) THEN Panics(nop.idx, h, nop.entry, "cast")
  ELSE Outcome(nop.idx, h, nop.entry, "return", "-", NoResult,
               ExistsReturn(op).err, ExistsReturn(op).flag)

----------------------------------------------------------------------------
(* The state machine: one step per call on the executor.                   *)

\* What is remembered of the latest call: its method and inputs, the entry
\* it consumed (0: none) and what the caller saw.
Called(method, q, args, o) ==
  [method |-> method, q |-> q, args |-> args, entry |-> o.entry,
   outcome |-> o.outcome, panic |-> o.panic, result |-> o.result,
   err |-> o.err, flag |-> o.flag]

NoCall ==
  [method |-> "-", q |-> Nil, args |-> <<>>, entry |-> 0, outcome |-> "none",
   panic |-> "-", result |-> NoResult, err |-> NoError, flag |-> FALSE]

\* A mock that also runs the query it is given, as QueryRealizer does.
MockForwards(method, q, args) ==
  << [method |-> method, q |-> q, args |-> args, result |-> NoResult,
      err |-> NoError, flag |-> FALSE] >>

\* The calls a method of MockQueryExecutor makes on the query's own Exec,
\* Scan and Exists: none (it only reads q.GetModel()).
MockInvokes(method, q, args) == <<>>

\* The second run: the query it was given, its cursor and variables, and
\* what its caller saw.
Second(q, o) ==
  [q |-> q, idx |-> o.idx, heap |-> o.heap, outcome |-> o.outcome,
   panic |-> o.panic, result |-> o.result, err |-> o.err, flag |-> o.flag]

NoRun ==
  [q |-> Nil, idx |-> 0, heap |-> InitHeap, outcome |-> "none",
   panic |-> "-", result |-> NoResult, err |-> NoError, flag |-> FALSE]

Init ==
  /\ Ops \in OpsChoices
  /\ idx = 0
  /\ heap = InitHeap
  /\ calls = 0
  /\ last = NoCall
  /\ qlog = <<>>
  /\ run2 = NoRun

\* One call on the executor with outcome o.
Run(method, q, args, o) ==
  /\ calls < MaxCalls
  /\ idx' = o.idx
  /\ heap' = o.heap
  /\ calls' = calls + 1
  /\ last' = Called(method, q, args, o)
  /\ qlog' = qlog \o MockInvokes(method, q, args)
  /\ UNCHANGED Ops

Step(method, q, args, o) ==
  /\ Run(method, q, args, o)
  /\ UNCHANGED run2

Exec ==
  \E q \in Queries, args \in ArgsChoices :
    Step("Exec", q, args, ExecCall(Ops, idx, heap, q, args))

Scan ==
  \E q \in Queries, args \in ArgsChoices :
    Step("Scan", q, args, ScanCall(Ops, idx, heap, q, args))

Exists ==
  \E q \in Queries :
    Step("Exists", q, <<>>, ExistsCall(Ops, idx, heap, q))

Next == Exec \/ Scan \/ Exists

Spec == Init /\ [][Next]_vars

----------------------------------------------------------------------------
(* Two runs of one test script: the same Ops, the same method called with  *)
(* the same args at every step, and a query of its own for each run.       *)

\* The args of a call in the two runs.
PairArgs == { <<>>, <<Ptr("s")>>, <<Ptr("s"), Ptr("f")>> }

PairStep(method, q, args, o, q2, o2) ==
  /\ Run(method, q, args, o)
  /\ run2' = Second(q2, o2)

PairExec ==
  \E q \in Queries, q2 \in Queries, args \in PairArgs :
    PairStep("Exec", q, args, ExecCall(Ops, idx, heap, q, args),
             q2, ExecCall(Ops, run2.idx, run2.heap, q2, args))

PairScan ==
  \E q \in Queries, q2 \in Queries, args \in PairArgs :
    PairStep("Scan", q, args, ScanCall(Ops, idx, heap, q, args),
             q2, ScanCall(Ops, run2.idx, run2.heap, q2, args))

PairExists ==
  \E q \in Queries, q2 \in Queries :
    PairStep("Exists", q, <<>>, ExistsCall(Ops, idx, heap, q),
             q2, ExistsCall(Ops, run2.idx, run2.heap, q2))

NextPair == PairExec \/ PairScan \/ PairExists

SpecPair == Init /\ [][NextPair]_vars

----------------------------------------------------------------------------
(* QueryRealizer (bunoffe.go): the Executor that runs the query it is      *)
(* given.  The query's own methods belong to bun; what one of them returns *)
(* is the environment's choice (reply), and each call made on a query is   *)
(* appended to qlog with the values it returned.                           *)

\* What a query's own method may return: a result or a flag with no error,
\* or an error.
Replies ==
  { [result |-> "dbres", err |-> NoError, flag |-> TRUE],
    [result |-> "dbres", err |-> NoError, flag |-> FALSE],
    [result |-> NoResult, err |-> "dberr", flag |-> FALSE] }

\* The args a QueryRealizer call is given.
RealizerArgs == { <<>>, <<Ptr("s")>> }

\* q.Exec(ctx, args...), q.Scan(ctx, args...) or q.Exists(ctx) on log: Exec
\* returns (result, err), Scan err, Exists (flag, err).
QueryInvoke(log, method, q, args, reply) ==
  LET ret == [method |-> method, q |-> q, args |-> args,
              result |-> IF method = "Exec" THEN reply.result ELSE NoResult,
              err |-> reply.err,
              flag |-> IF method = "Exists" THEN reply.flag ELSE FALSE]
  IN [log |-> Append(log, ret), result |-> ret.result, err |-> ret.err,
      flag |-> ret.flag]

\* A realizer that forgets to pass args on.
QueryRealizerExecNoArgs(log, q, args, reply) ==
  QueryInvoke(log, "Exec", q, <<>>, reply)

\* QueryRealizer.Exec: return q.Exec(ctx, args...)
QueryRealizerExec(log, q, args, reply) ==
  QueryInvoke(log, "Exec", q, args, reply)

\* QueryRealizer.Scan: return q.Scan(ctx, args...)
QueryRealizerScan(log, q, args, reply) ==
  QueryInvoke(log, "Scan", q, args, reply)

\* QueryRealizer.Exists: return q.Exists(ctx)
QueryRealizerExists(log, q, reply) ==
  QueryInvoke(log, "Exists", q, <<>>, reply)

\* No MockQueryExecutor is in use: QueryRealizer has no fields.
InitRealizer ==
  /\ Ops = <<>>
  /\ idx = 0
  /\ heap = InitHeap
  /\ calls = 0
  /\ last = NoCall
  /\ qlog = <<>>
  /\ run2 = NoRun

RealizerStep(method, q, args, r) ==
  /\ calls < MaxCalls
  /\ calls' = calls + 1
  /\ qlog' = r.log
  /\ last' = Called(method, q, args,
                    Outcome(idx, heap, 0, "return", "-", r.result, r.err, r.flag))
  /\ UNCHANGED <<Ops, idx, heap, run2>>

RealizerExec ==
  \E q \in Queries, args \in RealizerArgs, reply \in Replies :
    RealizerStep("Exec", q, args, QueryRealizerExec(qlog, q, args, reply))

RealizerScan ==
  \E q \in Queries, args \in RealizerArgs, reply \in Replies :
    RealizerStep("Scan", q, args, QueryRealizerScan(qlog, q, args, reply))

RealizerExists ==
  \E q \in Queries, reply \in Replies :
    RealizerStep("Exists", q, <<>>, QueryRealizerExists(qlog, q, reply))

NextRealizer == RealizerExec \/ RealizerScan \/ RealizerExists

SpecRealizer == InitRealizer /\ [][NextRealizer]_vars

----------------------------------------------------------------------------
(* Properties.                                                             *)

\* The entry the latest call consumed (when last.entry >= 1).
Met == Ops[last.entry]

\* The operation type each method is scripted with.
OwnType(method) ==
  CASE method = "Exec" -> "MockExecOperation"
    [] method = "Scan" -> "MockScanOperation"
    [] method = "Exists" -> "MockExistsOperation"

\* The latest call consumed an entry of its own method's type.
Matched == last.entry >= 1 /\ Met.type = OwnType(last.method)

Returned == last.outcome = "return"

\* C1: the k-th call on the executor (1 <= k <= Len(Ops)) consumes entry
\* Ops[k], never another one, and when its method matches the entry's type
\* the values it returns are the ones scripted in that entry: the scripted
\* Error when there is one, and otherwise the entry's Result (Exec), nil
\* (Scan) or the entry's Exists (Exists) with a nil error.
C1_NthCallNthEntry ==
  (calls >= 1 /\ calls <= Len(Ops)) =>
    /\ last.entry = calls
    /\ idx = calls
    /\ Ops[calls].type = OwnType(last.method) =>
         /\ Ops[calls].Error # NoError =>
              (Returned /\ last.err = Ops[calls].Error)
         /\ (Returned /\ Ops[calls].Error = NoError) =>
              /\ last.err = NoError
              /\ last.method = "Exec" => last.result = Ops[calls].Result
              /\ last.method = "Exists" => last.flag = Ops[calls].Exists

\* C1 witness: the second call returned what the second of two entries
\* scripts, after a first call that consumed the first entry.
C1_Witness ==
  /\ Len(Ops) = 2 /\ calls = 2 /\ last.entry = 2
  /\ last.method = "Exec" /\ Returned /\ last.result = "r1"
  /\ Ops[2].Result = "r1" /\ Ops[1].Result # "r1"

\* C2: a call whose method does not match the type of the entry it meets
\* panics: nothing is returned and no variable (model or argument) is
\* assigned.
C2_MismatchPanics ==
  [][(calls' = calls + 1 /\ idx < Len(Ops)
        /\ Ops[idx + 1].type # OwnType(last'.method))
       => (/\ last'.outcome = "panic"
           /\ last'.result = NoResult /\ last'.err = NoError
           /\ last'.flag = FALSE
           /\ heap' = heap)]_vars

\* C2 witness: Scan met an entry scripted for Exec whose Model is set, and
\* panicked on the type assertion.
C2_Witness ==
  /\ last.method = "Scan" /\ last.entry >= 1
  /\ Met.type = "MockExecOperation" /\ Met.Model.kind = "ptr"
  /\ last.q.kind = "ptr"
  /\ last.outcome = "panic" /\ last.panic = "cast"

\* C3: once every entry has been consumed (more calls made than Ops has
\* entries; with an empty Ops, from the first call on) each call panics, no
\* entry is handed out again and the cursor stays at the end of the list.
C3_ExhaustedPanics ==
  calls > Len(Ops) =>
    /\ last.outcome = "panic"
    /\ last.entry = 0
    /\ idx = Len(Ops)

\* C3 witness: the second call after the end of a non-empty list panicked.
C3_Witness ==
  /\ Len(Ops) >= 1 /\ calls = Len(Ops) + 2
  /\ last.outcome = "panic" /\ last.panic = "exhausted"

ModelStepFails(method, op, q) ==
  /\ op.Model.kind # "nil"
  /\ \/ q.kind = "nil"
     \/ method = "Exec" /\ op.Model.kind # "ptr"

\* The entry's Args cannot all be assigned to args: some Args[i] has no
\* args[i], or args[i] is not a pointer, or Args[i] is nil.
ArgsStepFails(op, args) ==
  \E i \in 1..Len(op.Args) :
    \/ i > Len(args)
    \/ args[i].kind # "ptr"
    \/ op.Args[i].kind = "nil"

\* C5 as claimed: Exec that consumes a MockExecOperation whose Error is nil
\* returns the entry's Result (nil when Result is not set) and a nil error.
C5_Original ==
  (Matched /\ last.method = "Exec" /\ Met.Error = NoError) =>
    (Returned /\ last.result = Met.Result /\ last.err = NoError)

\* C5 amended: Exec that consumes a MockExecOperation whose Error is nil
\* panics when its Model cannot be copied, when its non-empty Args differs
\* in length from args, or when its Args cannot be assigned; in every other
\* case it returns the entry's Result (nil when not set) and a nil error.
C5_ExecReturnsResult ==
  (Matched /\ last.method = "Exec" /\ Met.Error = NoError) =>
    IF \/ ModelStepFails("Exec", Met, last.q)
       \/ (Len(Met.Args) > 0 /\ Len(Met.Args) # Len(last.args))
       \/ ArgsStepFails(Met, last.args)
    THEN last.outcome = "panic"
    ELSE Returned /\ last.result = Met.Result /\ last.err = NoError

\* C5 witness: Exec returned the Result of an entry with nil Error.
C5_Witness ==
  /\ Matched /\ last.method = "Exec" /\ Met.Error = NoError
  /\ Met.Result = "r1" /\ Returned /\ last.result = "r1"

ArgsAvoid(args, cells) ==
  \A i \in 1..Len(args) : args[i].kind = "ptr" => args[i].addr \notin cells

\* The value an `any` stands for on heap h: what a pointer points to, or
\* the plain value itself.
Deref(x, h) == IF x.kind = "ptr" THEN h[x.addr] ELSE x.v

\* The step is a call of method that consumes an entry of the method's type
\* with a nil Error.
Consumes(method, type) ==
  /\ calls' = calls + 1
  /\ last'.method = method
  /\ last'.entry >= 1
  /\ Ops[last'.entry].type = type
  /\ Ops[last'.entry].Error = NoError

\* C8 as claimed: Scan that consumes a MockScanOperation with nil Error and
\* non-nil Model, on a query built with .Model(&n), leaves n equal to the
\* entry's Model value and returns nil, and does not change the entry's
\* Model.
C8_Original ==
  [][(/\ Consumes("Scan", "MockScanOperation")
      /\ Ops[last'.entry].Model.kind # "nil"
      /\ last'.q.kind = "ptr")
       => (/\ heap'[last'.q.addr] = Deref(Ops[last'.entry].Model, heap)
           /\ last'.outcome = "return" /\ last'.err = NoError
           /\ Deref(Ops[last'.entry].Model, heap')
                = Deref(Ops[last'.entry].Model, heap)
           /\ Ops' = Ops)]_vars

\* C8 amended: such a Scan, when no args[i] points to the query's model or
\* to the variable behind the entry's Model, leaves the query's model equal
\* to the entry's Model value and does not change the entry's Model; it
\* returns nil unless the entry's Args cannot be assigned to args (fewer
\* args than Args, an args[i] that is not a pointer, a nil Args[i]), in
\* which case it panics after the model has been assigned.
C8_ScanAssignsModel ==
  [][(/\ Consumes("Scan", "MockScanOperation")
      /\ Ops[last'.entry].Model.kind # "nil"
      /\ last'.q.kind = "ptr"
      /\ ArgsAvoid(last'.args, {last'.q.addr, Ops[last'.entry].Model.addr}))
       => (/\ heap'[last'.q.addr] = Deref(Ops[last'.entry].Model, heap)
           /\ IF ArgsStepFails(Ops[last'.entry], last'.args)
              THEN last'.outcome = "panic"
              ELSE last'.outcome = "return" /\ last'.err = NoError
           /\ Deref(Ops[last'.entry].Model, heap')
                = Deref(Ops[last'.entry].Model, heap)
           /\ Ops' = Ops)]_vars

\* C8 witness: Scan returned nil and the query's model n holds the value of
\* the variable the entry's Model points to, which it did not hold before.
C8_Witness ==
  /\ Matched /\ last.method = "Scan" /\ Met.Error = NoError
  /\ Met.Model = Ptr("m") /\ last.q = Ptr("n")
  /\ Returned /\ heap["n"] = heap["m"] /\ heap["n"] = InitHeap["m"]

\* C9 as claimed: Exec that consumes a MockExecOperation with nil Error and
\* non-nil Model, on a query built with .Model(&n), makes the entry's Model
\* hold the value n had before the call, and leaves n as it was.
C9_Original ==
  [][(/\ Consumes("Exec", "MockExecOperation")
      /\ Ops[last'.entry].Model.kind # "nil"
      /\ last'.q.kind = "ptr")
       => (/\ Deref(Ops'[last'.entry].Model, heap') = heap[last'.q.addr]
           /\ heap'[last'.q.addr] = heap[last'.q.addr])]_vars

\* C9 amended: the same for a Model that is a non-nil pointer (with a Model
\* that is not a pointer Exec panics and copies nothing), when no args[i]
\* points to the query's model or to the variable behind the entry's Model.
C9_ExecCapturesModel ==
  [][(/\ Consumes("Exec", "MockExecOperation")
      /\ Ops[last'.entry].Model.kind = "ptr"
      /\ last'.q.kind = "ptr"
      /\ ArgsAvoid(last'.args, {last'.q.addr, Ops[last'.entry].Model.addr}))
       => (/\ heap'[Ops[last'.entry].Model.addr] = heap[last'.q.addr]
           /\ heap'[last'.q.addr] = heap[last'.q.addr]
           /\ Ops' = Ops)]_vars

\* C9 witness: Exec returned, and the variable the entry's Model points to
\* holds the value of the query's model n, which it did not hold before.
C9_Witness ==
  /\ Matched /\ last.method = "Exec" /\ Met.Error = NoError
  /\ Met.Model = Ptr("m") /\ last.q = Ptr("n")
  /\ Returned /\ heap["m"] = heap["n"] /\ heap["m"] = InitHeap["n"]

\* The case C10 is about: Exec or Scan consumed an entry of its type with
\* nil Error and a non-empty Args as long as args, and every args[i] is a
\* pointer.
C10_Case ==
  /\ Matched /\ last.method \in {"Exec", "Scan"}
  /\ Met.Error = NoError
  /\ Len(Met.Args) > 0 /\ Len(Met.Args) = Len(last.args)
  /\ \A i \in 1..Len(last.args) : last.args[i].kind = "ptr"

\* After the call the variable behind every args[i] holds the value of the
\* entry's Args[i].
C10_Assigned ==
  \A i \in 1..Len(Met.Args) :
    /\ Met.Args[i].kind # "nil"
    /\ heap[last.args[i].addr] = Deref(Met.Args[i], heap)

\* C10 as claimed: in that case, after the call the value behind args[i]
\* equals the entry's Args[i] for every i.
C10_Original == C10_Case => C10_Assigned

\* C10 amended: in that case, when moreover the model step does not panic
\* (Model is nil, or the query has a model and, for Exec, Model is a
\* pointer), no Args[i] is nil and the args[i] point to distinct variables,
\* the call returns and the value behind args[i] equals the entry's Args[i]
\* (the value it points to when Args[i] is itself a pointer) for every i.
C10_ArgsAssigned ==
  (/\ C10_Case
   /\ ~ModelStepFails(last.method, Met, last.q)
   /\ \A i \in 1..Len(Met.Args) : Met.Args[i].kind # "nil"
   /\ \A i, j \in 1..Len(last.args) :
        i # j => last.args[i].addr # last.args[j].addr)
    => (Returned /\ C10_Assigned)

\* C10 witness: Scan assigned a plain value and the value behind a pointer
\* to the caller's two variables, in order.
C10_Witness ==
  /\ C10_Case /\ last.method = "Scan" /\ Returned
  /\ last.args = <<Ptr("s"), Ptr("f")>>
  /\ Met.Args = <<Val(4), Ptr("p")>>
  /\ heap["s"] = 4 /\ heap["f"] = heap["p"] /\ heap["f"] # heap["s"]

\* C11: every call of QueryRealizer.Exec, Scan or Exists makes exactly one
\* call on the query, of the method of the same name, on the same query and
\* with the same args, and returns exactly what that call returned; nothing
\* else changes, so the realizer carries no state from call to call.
C11_RealizerPassThrough ==
  [][calls' = calls + 1
       => (/\ Len(qlog') = Len(qlog) + 1
           /\ SubSeq(qlog', 1, Len(qlog)) = qlog
           /\ qlog'[Len(qlog')].method = last'.method
           /\ qlog'[Len(qlog')].q = last'.q
           /\ qlog'[Len(qlog')].args = last'.args
           /\ last'.outcome = "return"
           /\ last'.result = qlog'[Len(qlog')].result
           /\ last'.err = qlog'[Len(qlog')].err
           /\ last'.flag = qlog'[Len(qlog')].flag
           /\ UNCHANGED <<Ops, idx, heap>>)]_vars

\* C11 witness: the realizer's Exec, given args, returned the result of
\* the one call it made on the query, after an earlier call that returned
\* the query's error.
C11_Witness ==
  /\ Len(qlog) = 2 /\ calls = 2
  /\ qlog[1].err = "dberr"
  /\ qlog[2].method = "Exec" /\ qlog[2].args = <<Ptr("s")>>
  /\ last.method = "Exec" /\ last.args = <<Ptr("s")>>
  /\ last.result = "dbres" /\ last.err = NoError

\* A call panicked on a type mismatch or on the exhausted list.
MisusePanic(why) == why \in {"cast", "exhausted"}

\* C12 as claimed: the mock never calls the query's own Exec, Scan or
\* Exists; whether a call panics on mismatch or exhaustion is the same in
\* two runs that differ in the queries only; and the two runs return the
\* same values: a call that returns in one run returns in the other, with
\* the same result, flag and error.
C12_Original ==
  /\ qlog = <<>>
  /\ (MisusePanic(last.panic) \/ MisusePanic(run2.panic))
       => run2.panic = last.panic
  /\ (last.outcome = "return" \/ run2.outcome = "return") =>
       /\ run2.outcome = last.outcome
       /\ run2.result = last.result
       /\ run2.flag = last.flag
       /\ run2.err = last.err

\* C12 amended: the mock never calls the query's own Exec, Scan or Exists;
\* the cursor and whether a call panics on mismatch or exhaustion are the
\* same in the two runs; and a call that returns in both runs returns the
\* same result, flag and error in both.  (A call may return in one run and
\* panic in the other: with Model set, the mock reads q.GetModel().)
C12_QueryOnlyReadForModel ==
  /\ qlog = <<>>
  /\ run2.idx = idx
  /\ (MisusePanic(last.panic) \/ MisusePanic(run2.panic))
       => run2.panic = last.panic
  /\ (last.outcome = "return" /\ run2.outcome = "return") =>
       /\ run2.result = last.result
       /\ run2.flag = last.flag
       /\ run2.err = last.err

\* C12 witness: after a first call that left the two runs with different
\* variables, a second call given different queries returned the same
\* scripted values in both runs.
C12_Witness ==
  /\ calls = 2 /\ heap # run2.heap /\ last.q # run2.q
  /\ last.outcome = "return" /\ run2.outcome = "return"
  /\ last.method = "Exec" /\ last.err = "e1" /\ run2.err = "e1"

\* C13: the cursor starts at 0 and always satisfies 0 <= idx <= Len(Ops);
\* a call never decreases it, advances it by exactly one when there is an
\* entry left (whatever the call then does: return a value, return a
\* scripted error, or panic), and leaves it alone when the list is
\* exhausted, in which case the call panics; no call changes Ops.
C13_Cursor ==
  /\ idx = 0
  /\ [][/\ 0 <= idx' /\ idx' <= Len(Ops')
        /\ idx' >= idx
        /\ idx < Len(Ops) => (idx' = idx + 1 /\ last'.entry = idx')
        /\ idx >= Len(Ops) => (idx' = idx /\ last'.outcome = "panic")
        /\ Ops' = Ops]_vars

\* C13 witness: after a mismatch panic that consumed the first entry and a
\* call that consumed the second, the cursor is at the end of the list and
\* a call that panicked on exhaustion left it there.
C13_Witness ==
  /\ Len(Ops) = 2 /\ calls = 3 /\ idx = 2
  /\ Ops[1].type = "MockExistsOperation" /\ heap # InitHeap
  /\ last.outcome = "panic" /\ last.panic = "exhausted"

====
